---- MODULE Spec2Model ----
(***************************************************************************)
(* Model of horde/classes/stable/interrogation.py: the interrogation job   *)
(* (Interrogation) and its sub-tasks (InterrogationsForms).                *)
(*                                                                         *)
(* The database holds the committed rows.  Every caller works through its  *)
(* own SQLAlchemy session: attribute assignments stay private to the       *)
(* session (dirty / added) until that session runs db.session.commit(),    *)
(* which writes all of them at once.  A handler reads an attribute as the  *)
(* session sees it: its own pending value if it has one, else the          *)
(* committed value.                                                        *)
(***************************************************************************)
EXTENDS Integers, Sequences, FiniteSets, TLC

\* ---- bounds of the model ------------------------------------------------
NumSessions == 2
NumWorkers == 2
MaxTime == 2
MaxFaults == 2
MaxReq == 3
MaxJobs == 2
NumPoppers == 3
MaxProbe == 3

\* get_interrogation_form_expiry_date(): now + the claim TTL
ClaimTTL == 1

Sessions == 1..NumSessions
Workers == 1..NumWorkers
JobIds == 1..MaxJobs
FormNames == {"caption", "tags"}
Results == {"r1"}

\* The members of class State, by name.
State == {"WAITING", "PROCESSING", "DONE", "CANCELLED", "FAULTED"}

\* Python's None in an integer column (worker_id, initiated, expiry) and in
\* the JSON column result.
None == -1
NoneResult == "None"

\* Markers of "attribute not assigned in this session".
Unset == None - 1
UnsetStr == ""

VARIABLES
    now,            \* datetime.utcnow()
    interrogations, \* table interrogations: job id -> row
    forms,          \* table interrogation_forms: sequence of rows, index = id
    rowlock,        \* form id -> session holding its FOR UPDATE lock, or 0
    claimant,       \* form id -> worker of the pop that last took the claim, or 0
    sess,           \* session -> position, arguments, pending changes
    ret,            \* slot -> the last call that returned or raised there
    aborted_jobs,   \* worker -> faults logged by log_aborted_job
    worker_kudos,   \* worker -> kudos recorded by record_interrogation
    user_usage      \* kudos recorded by user.record_usage

vars == <<now, interrogations, forms, rowlock, claimant, sess, ret,
          aborted_jobs, worker_kudos, user_usage>>

MaxRows == MaxReq * MaxJobs
FormIds == 1..MaxRows

\* ---- rows ---------------------------------------------------------------
\* InterrogationsForms(name=..., payload=..., i_id=...): the column defaults.
\* The state column's default is 0, the value of State.WAITING.
NewForm(i_id, name) ==
    [i_id |-> i_id, name |-> name, state |-> "WAITING", result |-> NoneResult,
     worker_id |-> None, initiated |-> None, expiry |-> None]

NoJob == [exists |-> FALSE, requested |-> <<>>, source_image |-> FALSE]

\* No pending change of a row.
Clean ==
    [state |-> UnsetStr, result |-> UnsetStr,
     worker_id |-> Unset, initiated |-> Unset, expiry |-> Unset]

\* The row with a session's pending assignments applied to it.
Overlay(row, d) ==
    [row EXCEPT
        !.state = IF d.state = UnsetStr THEN @ ELSE d.state,
        !.result = IF d.result = UnsetStr THEN @ ELSE d.result,
        !.worker_id = IF d.worker_id = Unset THEN @ ELSE d.worker_id,
        !.initiated = IF d.initiated = Unset THEN @ ELSE d.initiated,
        !.expiry = IF d.expiry = Unset THEN @ ELSE d.expiry]

\* The pending assignments of a session: form id -> assigned attributes,
\* for the forms it has assigned to.
NoDirty == [f \in {} |-> Clean]
DirtyOf(d, f) == IF f \in DOMAIN d THEN d[f] ELSE Clean
Assign(d, f, new) == [g \in DOMAIN d \cup {f} |-> IF g = f THEN new ELSE d[g]]

\* self.<attribute> as session s reads it.
View(s, f) == Overlay(forms[f], DirtyOf(sess[s].dirty, f))

\* ---- outcomes of a call -------------------------------------------------
\* kind: "none" (returned None), "kudos" (returned a number), "payload",
\* "bool", "State" (an enum member), "str" (a string), "raise".
RetNone == [kind |-> "none", kudos |-> 0, text |-> ""]
RetKudos(k) == [kind |-> "kudos", kudos |-> k, text |-> ""]
RetPayload(name) == [kind |-> "payload", kudos |-> 0, text |-> name]
RetBool(b) == [kind |-> "bool", kudos |-> 0, text |-> IF b THEN "True" ELSE "False"]
RetState(name) == [kind |-> "State", kudos |-> 0, text |-> name]
RetStr(name) == [kind |-> "str", kudos |-> 0, text |-> name]
Raise(exc) == [kind |-> "raise", kudos |-> 0, text |-> exc]

\* A finished call: what was called on which row (or job), and what came
\* back.
NoCall == [op |-> "", form |-> 0, out |-> [kind |-> "", kudos |-> 0, text |-> ""]]
Outcome(op, f, out) == [op |-> op, form |-> f, out |-> out]

\* The outcomes are kept in slots: slot 0 holds the last call of any
\* session; a specification that follows every caller gives each session
\* a slot of its own.
Slot(s) == IF s \in DOMAIN ret THEN s ELSE 0
Put(s, o) == [ret EXCEPT ![Slot(s)] = o]

IdleSession ==
    [pc |-> "idle", form |-> 0, worker |-> 0,
     dirty |-> NoDirty, added |-> <<>>]

\* db.session.commit() of a session whose pending changes are d and a:
\* the UPDATEs of the assigned attributes and the INSERTs of the added rows.
Committed(d, a) ==
    [f \in DOMAIN forms |-> Overlay(forms[f], DirtyOf(d, f))] \o a

\* ---- pure functions -----------------------------------------------------
\* Interrogation.set_forms: the rows it adds to the session for a request.
\* seen_names is tested for every form and never extended.
RECURSIVE set_forms_loop(_, _, _, _)
set_forms_loop(i_id, req, seen_names, entries) ==
    IF req = <<>> THEN entries
    ELSE IF Head(req) \in seen_names
         THEN set_forms_loop(i_id, Tail(req), seen_names, entries)
         ELSE set_forms_loop(i_id, Tail(req), seen_names,
                             Append(entries, NewForm(i_id, Head(req))))

set_forms(i_id, req) == set_forms_loop(i_id, req, {}, <<>>)

\* InterrogationsForms.is_stale.  datetime.utcnow() > None raises TypeError.
is_stale(row, t) ==
    IF row.state \in {"FAULTED", "CANCELLED", "DONE"} THEN RetBool(FALSE)
    ELSE IF row.expiry = None THEN Raise("TypeError")
    ELSE RetBool(t > row.expiry)

\* Interrogation.get_status: ret_dict["state"].  The default is the enum
\* member State.WAITING; the three assignments store a member's .name.
get_status(rows) ==
    LET all_faulted == \A i \in DOMAIN rows : rows[i].state = "FAULTED"
        all_done == \A i \in DOMAIN rows : rows[i].state = "DONE"
        processing == \E i \in DOMAIN rows : rows[i].state = "PROCESSING"
    IN  IF all_faulted THEN RetStr("FAULTED")
        ELSE IF all_done THEN RetStr("DONE")
        ELSE IF processing THEN RetStr("PROCESSING")
        ELSE RetState("WAITING")

\* The names an Interrogation instance answers to: its columns, its
\* relationships and its methods.
InterrogationAttributes ==
    {"id", "source_image", "user_id", "user", "ipaddr", "safe_ip",
     "trusted_workers", "r2stored", "expiry", "created", "forms",
     "set_source_image", "refresh", "is_stale", "set_forms", "get_form_names",
     "start_interrogation", "get_pop_payload", "needs_interrogation",
     "is_completed", "get_status", "record_usage"}

\* Interrogation.needs_interrogation: any(form.result == None for form in
\* self.form).  Reading an attribute the instance does not have raises
\* AttributeError.
needs_interrogation(rows) ==
    IF "form" \notin InterrogationAttributes THEN Raise("AttributeError")
    ELSE RetBool(\E i \in DOMAIN rows : rows[i].result = NoneResult)

\* Interrogation.is_completed: "if self.FAULTED: return True", then
\* needs_interrogation.
is_completed(rows) ==
    IF "FAULTED" \notin InterrogationAttributes THEN Raise("AttributeError")
    ELSE IF needs_interrogation(rows).kind = "raise" THEN needs_interrogation(rows)
    ELSE RetBool(needs_interrogation(rows) = RetBool(FALSE))

\* A filter on the id alone.
pop_filter_id_only(row) == row.state \in State

\* pop: the filter of the SELECT ... FOR UPDATE.
pop_filter(row) == row.state = "WAITING"

\* A guard that lets only a WAITING row return early.
not_processing_waiting_only(row) == row.state = "WAITING"

\* deliver, cancel, abort: "if self.state != State.PROCESSING: return".
not_processing(row) == row.state # "PROCESSING"

\* abort: the state it writes before the commit.
abort_final_state == "WAITING"

\* self.forms of job j as session s sees it: the committed rows of the job,
\* and the rows the session itself has added (the query that loads the
\* relationship flushes them first).
FormsOf(s, j) ==
    LET ids == {f \in DOMAIN forms : forms[f].i_id = j}
        RECURSIVE pick(_, _)
        pick(f, acc) ==
            IF f > Len(forms) THEN acc
            ELSE pick(f + 1, IF f \in ids THEN Append(acc, View(s, f)) ELSE acc)
    IN  pick(1, <<>>) \o SelectSeq(sess[s].added, LAMBDA row : row.i_id = j)

Idle(s) == sess[s].pc = "idle"

TotalFaults ==
    LET RECURSIVE sum(_)
        sum(w) == IF w = 0 THEN 0 ELSE aborted_jobs[w] + sum(w - 1)
    IN  sum(NumWorkers)

\* ---- InterrogationsForms.pop -------------------------------------------
\* Lines 43-50.  A row that does not match returns at once; a matching row
\* locked by another session makes the caller wait for that commit.
PopSelect(s, f, w) ==
    /\ Idle(s)
    /\ f \in DOMAIN forms
    /\ IF pop_filter(View(s, f))
       THEN /\ rowlock[f] = 0
            /\ rowlock' = [rowlock EXCEPT ![f] = s]
            /\ sess' = [sess EXCEPT ![s].pc = "pop_commit", ![s].form = f,
                                    ![s].worker = w]
            /\ UNCHANGED ret
       ELSE /\ UNCHANGED sess
            /\ ret' = Put(s, Outcome("pop", f, RetNone))
            /\ UNCHANGED rowlock
    /\ UNCHANGED <<claimant, now, interrogations, forms, aborted_jobs, worker_kudos, user_usage>>

\* Lines 51-52: state = PROCESSING, commit (which releases the lock).
PopCommit(s) ==
    /\ sess[s].pc = "pop_commit"
    /\ LET f == sess[s].form
           d == Assign(sess[s].dirty, f, [DirtyOf(sess[s].dirty, f) EXCEPT !.state = "PROCESSING"])
       IN  /\ forms' = Committed(d, sess[s].added)
           /\ rowlock' = [g \in FormIds |-> IF rowlock[g] = s THEN 0 ELSE rowlock[g]]
           /\ claimant' = [claimant EXCEPT ![f] = sess[s].worker]
           /\ sess' = [sess EXCEPT ![s].pc = "pop_assign",
                                   ![s].dirty = NoDirty, ![s].added = <<>>]
    /\ UNCHANGED <<now, interrogations, ret, aborted_jobs, worker_kudos, user_usage>>

\* Lines 53-60: expiry, initiated, worker_id, commit, return the payload.
PopAssign(s) ==
    /\ sess[s].pc = "pop_assign"
    /\ LET f == sess[s].form
           d == Assign(sess[s].dirty, f,
                       [DirtyOf(sess[s].dirty, f) EXCEPT !.expiry = now + ClaimTTL,
                                                         !.initiated = now,
                                                         !.worker_id = sess[s].worker])
       IN  /\ forms' = Committed(d, sess[s].added)
           /\ sess' = [sess EXCEPT ![s].pc = "idle", ![s].form = 0,
                                   ![s].worker = 0,
                                   ![s].dirty = NoDirty, ![s].added = <<>>]
           /\ ret' = Put(s, Outcome("pop", f, RetPayload(View(s, f).name)))
    /\ UNCHANGED <<claimant, now, interrogations, rowlock, aborted_jobs, worker_kudos, user_usage>>

\* ---- InterrogationsForms.deliver / cancel ------------------------------
\* Lines 62-71.  The argument list of self.record(things_per_sec, kudos)
\* names things_per_sec, which is bound nowhere: the call raises NameError
\* before record runs, and the commit of line 70 is not reached.
Deliver(s, f, result) ==
    /\ Idle(s)
    /\ f \in DOMAIN forms
    /\ IF not_processing(View(s, f))
       THEN /\ ret' = Put(s, Outcome("deliver", f, RetKudos(0)))
            /\ UNCHANGED sess
       ELSE /\ sess' = [sess EXCEPT ![s].dirty =
                               Assign(@, f, [DirtyOf(@, f) EXCEPT !.result = result,
                                                                  !.state = "DONE"])]
            /\ ret' = Put(s, Outcome("deliver", f, Raise("NameError")))
    /\ UNCHANGED <<claimant, now, interrogations, forms, rowlock, aborted_jobs, worker_kudos, user_usage>>

\* Lines 73-82, with the same call of record.
Cancel(s, f) ==
    /\ Idle(s)
    /\ f \in DOMAIN forms
    /\ IF not_processing(View(s, f))
       THEN /\ ret' = Put(s, Outcome("cancel", f, RetKudos(0)))
            /\ UNCHANGED sess
       ELSE /\ sess' = [sess EXCEPT ![s].dirty =
                               Assign(@, f, [DirtyOf(@, f) EXCEPT !.result = NoneResult,
                                                                  !.state = "CANCELLED"])]
            /\ ret' = Put(s, Outcome("cancel", f, Raise("NameError")))
    /\ UNCHANGED <<claimant, now, interrogations, forms, rowlock, aborted_jobs, worker_kudos, user_usage>>

\* ---- InterrogationsForms.abort -----------------------------------------
\* worker.log_aborted_job(): one more fault against the worker.
log_aborted_job(w) == [aborted_jobs EXCEPT ![w] = @ + 1]

\* Lines 95-99.  self.worker is None while worker_id is None, and calling
\* a method of None raises AttributeError.
AbortBegin(s, f) ==
    /\ Idle(s)
    /\ f \in DOMAIN forms
    /\ LET v == View(s, f) IN
       IF not_processing(v)
       THEN /\ ret' = Put(s, Outcome("abort", f, RetNone))
            /\ UNCHANGED <<claimant, sess, aborted_jobs>>
       ELSE IF v.worker_id = None
       THEN /\ sess' = [sess EXCEPT ![s].dirty =
                               Assign(@, f, [DirtyOf(@, f) EXCEPT !.state = "FAULTED"])]
            /\ ret' = Put(s, Outcome("abort", f, Raise("AttributeError")))
            /\ UNCHANGED aborted_jobs
       ELSE /\ TotalFaults < MaxFaults
            /\ sess' = [sess EXCEPT ![s].pc = "abort_commit", ![s].form = f,
                                    ![s].dirty =
                                        Assign(@, f, [DirtyOf(@, f) EXCEPT !.state = "FAULTED"])]
            /\ aborted_jobs' = log_aborted_job(v.worker_id)
            /\ UNCHANGED ret
    /\ UNCHANGED <<claimant, now, interrogations, forms, rowlock, worker_kudos, user_usage>>

\* Lines 100-102.
AbortCommit(s) ==
    /\ sess[s].pc = "abort_commit"
    /\ LET f == sess[s].form
           d == Assign(sess[s].dirty, f, [DirtyOf(sess[s].dirty, f) EXCEPT !.state = abort_final_state])
       IN  /\ forms' = Committed(d, sess[s].added)
           /\ sess' = [sess EXCEPT ![s].pc = "idle", ![s].form = 0,
                                   ![s].dirty = NoDirty, ![s].added = <<>>]
           /\ ret' = Put(s, Outcome("abort", f, RetNone))
    /\ UNCHANGED <<claimant, now, interrogations, rowlock, aborted_jobs, worker_kudos, user_usage>>

\* ---- reads --------------------------------------------------------------
IsStale(s, f) ==
    /\ Idle(s)
    /\ f \in DOMAIN forms
    /\ ret' = Put(s, Outcome("is_stale", f, is_stale(View(s, f), now)))
    /\ UNCHANGED <<claimant, now, interrogations, forms, rowlock, sess, aborted_jobs, worker_kudos, user_usage>>

GetStatus(s, j) ==
    /\ Idle(s)
    /\ interrogations[j].exists
    /\ ret' = Put(s, Outcome("get_status", j, get_status(FormsOf(s, j))))
    /\ UNCHANGED <<claimant, now, interrogations, forms, rowlock, sess, aborted_jobs, worker_kudos, user_usage>>

IsCompleted(s, j) ==
    /\ Idle(s)
    /\ interrogations[j].exists
    /\ ret' = Put(s, Outcome("is_completed", j, is_completed(FormsOf(s, j))))
    /\ UNCHANGED <<claimant, now, interrogations, forms, rowlock, sess, aborted_jobs, worker_kudos, user_usage>>

\* ---- Interrogation.__init__ / set_source_image -------------------------
\* Lines 139-143: the job row is added and committed, then set_forms adds
\* the form rows to the session and returns without a commit.
CreateJob(s, j, req) ==
    /\ Idle(s)
    /\ ~interrogations[j].exists
    /\ \A i \in JobIds : i < j => interrogations[i].exists
    /\ interrogations' = [interrogations EXCEPT
                             ![j] = [exists |-> TRUE, requested |-> req,
                                     source_image |-> FALSE]]
    /\ forms' = Committed(sess[s].dirty, sess[s].added)
    /\ sess' = [sess EXCEPT ![s].dirty = NoDirty,
                            ![s].added = set_forms(j, req)]
    /\ ret' = Put(s, Outcome("create", j, RetNone))
    /\ UNCHANGED <<claimant, now, rowlock, aborted_jobs, worker_kudos, user_usage>>

\* Lines 146-148: the commit writes whatever the session holds.
SetSourceImage(s, j) ==
    /\ Idle(s)
    /\ interrogations[j].exists
    /\ interrogations' = [interrogations EXCEPT ![j].source_image = TRUE]
    /\ forms' = Committed(sess[s].dirty, sess[s].added)
    /\ sess' = [sess EXCEPT ![s].dirty = NoDirty, ![s].added = <<>>]
    /\ ret' = Put(s, Outcome("set_source_image", j, RetNone))
    /\ UNCHANGED <<claimant, now, rowlock, aborted_jobs, worker_kudos, user_usage>>

\* The caller's session ends (the request fails or is interrupted): what
\* it had not committed is rolled back.
SessionRemove(s) ==
    /\ Idle(s)
    /\ \/ sess[s].added # <<>>
       \/ DOMAIN sess[s].dirty # {}
    /\ sess' = [sess EXCEPT ![s] = IdleSession]
    /\ UNCHANGED <<claimant, now, interrogations, forms, rowlock, ret, aborted_jobs, worker_kudos, user_usage>>

Tick ==
    /\ now < MaxTime
    /\ now' = now + 1
    /\ UNCHANGED <<claimant, interrogations, forms, rowlock, sess, ret,
                   aborted_jobs, worker_kudos, user_usage>>

\* ---- specifications -----------------------------------------------------
InitCommon(S, slots) ==
    /\ now = 0
    /\ rowlock = [f \in FormIds |-> 0]
    /\ claimant = [f \in FormIds |-> 0]
    /\ sess = [s \in S |-> IdleSession]
    /\ ret = [k \in slots |-> NoCall]
    /\ aborted_jobs = [w \in Workers |-> 0]
    /\ worker_kudos = [w \in Workers |-> 0]
    /\ user_usage = 0

\* One job whose forms have been created and committed.
InitJob(req) ==
    /\ interrogations = [j \in JobIds |->
                            IF j = 1
                            THEN [exists |-> TRUE, requested |-> req,
                                  source_image |-> TRUE]
                            ELSE NoJob]
    /\ forms = [i \in 1..Len(req) |-> NewForm(1, req[i])]

Init ==
    /\ InitCommon(Sessions, {0})
    /\ InitJob(<<"caption">>)

Next ==
    \/ \E s \in DOMAIN sess, f \in FormIds, w \in Workers : PopSelect(s, f, w)
    \/ \E s \in DOMAIN sess : PopCommit(s)
    \/ \E s \in DOMAIN sess : PopAssign(s)
    \/ \E s \in DOMAIN sess, f \in FormIds, r \in Results : Deliver(s, f, r)
    \/ \E s \in DOMAIN sess, f \in FormIds : Cancel(s, f)
    \/ \E s \in DOMAIN sess, f \in FormIds : AbortBegin(s, f)
    \/ \E s \in DOMAIN sess : AbortCommit(s)
    \/ \E s \in DOMAIN sess, f \in FormIds : IsStale(s, f)
    \/ \E s \in DOMAIN sess, j \in JobIds : GetStatus(s, j)
    \/ \E s \in DOMAIN sess, j \in JobIds : SetSourceImage(s, j)
    \/ \E s \in DOMAIN sess : SessionRemove(s)
    \/ Tick

Spec == Init /\ [][Next]_vars

\* The same operations called one after the other through one session.
InitSolo ==
    /\ InitCommon({1}, {0})
    /\ InitJob(<<"caption">>)

SpecSolo == InitSolo /\ [][Next]_vars

\* ---- N callers of pop ---------------------------------------------------
\* Every session calls pop once, on either form of the job, and the calls
\* interleave freely.  Each session has its own outcome slot.
Poppers == 1..NumPoppers

InitPop ==
    /\ InitCommon(Poppers, Poppers)
    /\ InitJob(<<"caption", "tags">>)

PopOnce(s, f, w) ==
    /\ ret[s] = NoCall
    /\ PopSelect(s, f, w)

NextPop ==
    \/ \E s \in DOMAIN sess, f \in FormIds, w \in Workers : PopOnce(s, f, w)
    \/ \E s \in DOMAIN sess : PopCommit(s)
    \/ \E s \in DOMAIN sess : PopAssign(s)
    \/ Tick

SpecPop == InitPop /\ [][NextPop]_vars

\* ---- job creation -------------------------------------------------------
ReqLists == UNION {[1..n -> FormNames] : n \in 0..MaxReq}

InitCreate ==
    /\ InitCommon(Sessions, {0})
    /\ interrogations = [j \in JobIds |-> NoJob]
    /\ forms = <<>>

NextCreate ==
    \/ \E s \in DOMAIN sess, j \in JobIds, req \in ReqLists : CreateJob(s, j, req)
    \/ \E s \in DOMAIN sess, j \in JobIds : SetSourceImage(s, j)
    \/ \E s \in DOMAIN sess : SessionRemove(s)
    \/ \E s \in DOMAIN sess, j \in JobIds : GetStatus(s, j)

SpecCreate == InitCreate /\ [][NextCreate]_vars

\* ---- get_status over every combination of form states ------------------
ProbeStates == UNION {[1..n -> State] : n \in 0..MaxProbe}

InitStatus ==
    /\ InitCommon(Sessions, {0})
    /\ \E st \in ProbeStates :
          /\ interrogations = [j \in JobIds |->
                                  IF j = 1
                                  THEN [exists |-> TRUE,
                                        requested |-> [i \in 1..Len(st) |-> "caption"],
                                        source_image |-> TRUE]
                                  ELSE NoJob]
          /\ forms = [i \in 1..Len(st) |->
                         [NewForm(1, "caption") EXCEPT !.state = st[i]]]

NextStatus ==
    \/ \E s \in DOMAIN sess, j \in JobIds : GetStatus(s, j)
    \/ \E s \in DOMAIN sess, j \in JobIds : IsCompleted(s, j)

SpecStatus == InitStatus /\ [][NextStatus]_vars

\* ---- pop on the forms of any request -----------------------------------
\* One job, created for any request and committed: its forms are the rows
\* set_forms makes for the request.
InitRequested ==
    /\ InitCommon(Sessions, {0})
    /\ \E req \in ReqLists :
          /\ interrogations = [j \in JobIds |->
                                  IF j = 1
                                  THEN [exists |-> TRUE, requested |-> req,
                                        source_image |-> TRUE]
                                  ELSE NoJob]
          /\ forms = set_forms(1, req)

NextRequested ==
    \/ \E s \in DOMAIN sess, f \in FormIds, w \in Workers : PopSelect(s, f, w)
    \/ \E s \in DOMAIN sess : PopCommit(s)
    \/ \E s \in DOMAIN sess : PopAssign(s)

SpecRequested == InitRequested /\ [][NextRequested]_vars

\* ---- every worker on a session of its own ------------------------------
\* Worker w makes its calls (pop, deliver, cancel) through session w; abort
\* is called by the reclaimer through any session.
PopOwn(s, f) ==
    /\ s \in Workers
    /\ PopSelect(s, f, s)

NextHolder ==
    \/ \E s \in DOMAIN sess, f \in FormIds : PopOwn(s, f)
    \/ \E s \in DOMAIN sess : PopCommit(s)
    \/ \E s \in DOMAIN sess : PopAssign(s)
    \/ \E s \in DOMAIN sess, f \in FormIds, r \in Results : Deliver(s, f, r)
    \/ \E s \in DOMAIN sess, f \in FormIds : Cancel(s, f)
    \/ \E s \in DOMAIN sess, f \in FormIds : AbortBegin(s, f)
    \/ \E s \in DOMAIN sess : AbortCommit(s)
    \/ \E s \in DOMAIN sess : SessionRemove(s)

SpecHolder == Init /\ [][NextHolder]_vars

\* ---- C1 -----------------------------------------------------------------
\* The sessions whose pop on form f has returned, those among them that got
\* a payload, and the sessions whose pop on f holds the claim but has not
\* returned yet.
Callers(f) == {s \in DOMAIN sess : ret[s].op = "pop" /\ ret[s].form = f}
Winners(f) == {s \in Callers(f) : ret[s].out.kind = "payload"}
InFlight(f) ==
    {s \in DOMAIN sess : sess[s].pc \in {"pop_commit", "pop_assign"} /\ sess[s].form = f}

\* C1: of the calls of pop that race for one WAITING form, never more than
\* one holds or has got the claim; every other call returns None; and once
\* all the calls made have returned, exactly one of them has the payload,
\* the form is PROCESSING and its worker_id is the worker of the call that
\* took the claim.
ExactlyOneClaim ==
    \A f \in DOMAIN forms :
        /\ Cardinality(Winners(f) \cup InFlight(f)) <= 1
        /\ \A s \in Callers(f) \ Winners(f) : ret[s].out = RetNone
        /\ (Callers(f) # {} /\ InFlight(f) = {}) =>
              /\ Cardinality(Winners(f)) = 1
              /\ forms[f].state = "PROCESSING"
              /\ forms[f].worker_id = claimant[f]

\* All the sessions have called pop on the same form and have returned.
WitnessExactlyOneClaim ==
    \E f \in DOMAIN forms :
        /\ Callers(f) = DOMAIN sess
        /\ Cardinality(Callers(f)) >= 3
        /\ Cardinality(Winners(f)) = 1

\* ---- shorthands of the claims ------------------------------------------
Last == ret[0]
RowsOfJob(j) == {f \in DOMAIN forms : forms[f].i_id = j}
DistinctNames(req) == {req[i] : i \in DOMAIN req}
LedgersUnchanged ==
    /\ aborted_jobs' = aborted_jobs
    /\ worker_kudos' = worker_kudos
    /\ user_usage' = user_usage

\* ---- C2 -----------------------------------------------------------------
\* C2: every job that is in the database has at least as many committed
\* forms as its request has distinct names.
AtomicJobCreation ==
    \A j \in JobIds :
        interrogations[j].exists =>
            Cardinality(RowsOfJob(j)) >= Cardinality(DistinctNames(interrogations[j].requested))

\* ---- C3 -----------------------------------------------------------------
\* C3: a call of deliver, cancel or abort by a session that sees the form
\* WAITING, DONE or CANCELLED returns 0 (abort: None) and changes neither
\* the rows, nor what the session holds, nor a ledger; so the same holds of
\* the next such call.
InvalidTransitionNoOp ==
    [][\A s \in DOMAIN sess, f \in DOMAIN forms :
          (Idle(s) /\ View(s, f).state \in {"WAITING", "DONE", "CANCELLED"}) =>
              /\ (\E r \in Results : Deliver(s, f, r)) =>
                    /\ ret'[0] = Outcome("deliver", f, RetKudos(0))
                    /\ forms' = forms /\ sess' = sess /\ LedgersUnchanged
              /\ Cancel(s, f) =>
                    /\ ret'[0] = Outcome("cancel", f, RetKudos(0))
                    /\ forms' = forms /\ sess' = sess /\ LedgersUnchanged
              /\ AbortBegin(s, f) =>
                    /\ ret'[0] = Outcome("abort", f, RetNone)
                    /\ forms' = forms /\ sess' = sess /\ LedgersUnchanged]_vars

\* cancel has returned 0 on a form that is DONE in the database.
WitnessInvalidTransitionNoOp ==
    /\ Last.op = "cancel"
    /\ Last.out = RetKudos(0)
    /\ forms[Last.form].state = "DONE"

\* ---- C4 -----------------------------------------------------------------
\* C4: the forms created for a job, committed or still held by the creating
\* session, never include two with the same name.
DuplicateFormsDropped ==
    /\ \A f, g \in DOMAIN forms :
          (f # g /\ forms[f].i_id = forms[g].i_id) => forms[f].name # forms[g].name
    /\ \A s \in DOMAIN sess :
          \A i, k \in DOMAIN sess[s].added :
              i # k => sess[s].added[i].name # sess[s].added[k].name

\* ---- C5 -----------------------------------------------------------------
\* A PROCESSING form whose expiry has passed.
Expired(row) ==
    /\ row.state = "PROCESSING"
    /\ row.expiry # None
    /\ now > row.expiry

\* C5: is_stale returns True for a PROCESSING form whose expiry has passed;
\* abort of such a form logs one fault against the worker that holds the
\* claim and no kudos, and its commit leaves the form WAITING; an abort of a
\* WAITING form logs nothing; a pop of a WAITING, unlocked form takes the
\* claim and then returns the payload.
ReclaimRoundTrip ==
    [][\A s \in DOMAIN sess, f \in DOMAIN forms :
          /\ (IsStale(s, f) /\ Expired(View(s, f))) =>
                ret'[0] = Outcome("is_stale", f, RetBool(TRUE))
          /\ (AbortBegin(s, f) /\ Expired(View(s, f))) =>
                /\ aborted_jobs' = [aborted_jobs EXCEPT ![claimant[f]] = @ + 1]
                /\ worker_kudos' = worker_kudos /\ user_usage' = user_usage
                /\ sess'[s].pc = "abort_commit"
          /\ (AbortCommit(s) /\ sess[s].form = f) =>
                /\ forms'[f].state = "WAITING"
                /\ ret'[0] = Outcome("abort", f, RetNone)
                /\ LedgersUnchanged
          /\ (AbortBegin(s, f) /\ View(s, f).state = "WAITING") =>
                /\ aborted_jobs' = aborted_jobs
                /\ forms' = forms
          /\ \A w \in Workers :
                (PopSelect(s, f, w) /\ View(s, f).state = "WAITING") =>
                    sess'[s].pc = "pop_commit"
          /\ (PopAssign(s) /\ sess[s].form = f) =>
                /\ ret'[0].out.kind = "payload"
                /\ forms'[f].worker_id = sess[s].worker]_vars

\* ---- C6 -----------------------------------------------------------------
\* C6: deliver on a form the caller sees PROCESSING returns 1, leaves the
\* form DONE with the result in the database, and adds 1 kudos to the
\* form's worker and 1 to the requester's usage.
DeliveryEffect ==
    [][\A s \in DOMAIN sess, f \in DOMAIN forms, r \in Results :
          (Deliver(s, f, r) /\ View(s, f).state = "PROCESSING") =>
              /\ ret'[0] = Outcome("deliver", f, RetKudos(1))
              /\ forms'[f].state = "DONE"
              /\ forms'[f].result = r
              /\ user_usage' = user_usage + 1
              /\ \E w \in Workers : worker_kudos' = [worker_kudos EXCEPT ![w] = @ + 1]]_vars

\* ---- C7 -----------------------------------------------------------------
\* C7: cancel on a form the caller sees PROCESSING returns 1, leaves the
\* form CANCELLED with a null result in the database, and adds 1 kudos to
\* the form's worker and 1 to the requester's usage.
CancellationEffect ==
    [][\A s \in DOMAIN sess, f \in DOMAIN forms :
          (Cancel(s, f) /\ View(s, f).state = "PROCESSING") =>
              /\ ret'[0] = Outcome("cancel", f, RetKudos(1))
              /\ forms'[f].state = "CANCELLED"
              /\ forms'[f].result = NoneResult
              /\ user_usage' = user_usage + 1
              /\ \E w \in Workers : worker_kudos' = [worker_kudos EXCEPT ![w] = @ + 1]]_vars

\* ---- C8 -----------------------------------------------------------------
\* C8: a committed form that is not WAITING has a worker, a claim time and
\* a claim expiry.
ClaimedImpliesAssigned ==
    \A f \in DOMAIN forms :
        forms[f].state # "WAITING" =>
            /\ forms[f].worker_id # None
            /\ forms[f].initiated # None
            /\ forms[f].expiry # None

\* ---- C9 -----------------------------------------------------------------
\* C9: is_stale returns True when the form is PROCESSING and now is later
\* than its expiry, and False in every other case.
StalenessPredicate ==
    [][\A s \in DOMAIN sess, f \in DOMAIN forms :
          IsStale(s, f) =>
              ret'[0] = Outcome("is_stale", f, RetBool(Expired(View(s, f))))]_vars

\* ---- C10 ----------------------------------------------------------------
\* The aggregate the four laws give for a sequence of rows.
StatusLaw(rows) ==
    IF \A i \in DOMAIN rows : rows[i].state = "FAULTED" THEN "FAULTED"
    ELSE IF \A i \in DOMAIN rows : rows[i].state = "DONE" THEN "DONE"
    ELSE IF \E i \in DOMAIN rows : rows[i].state = "PROCESSING" THEN "PROCESSING"
    ELSE "WAITING"

\* C10: for a job with at least one form, get_status reports the state the
\* four laws give, and reports it as a state name in every branch.
AggregateStatusLaws ==
    (Last.op = "get_status" /\ RowsOfJob(Last.form) # {}) =>
        Last.out = RetStr(StatusLaw([i \in 1..Len(forms) |-> forms[i]]))

\* ---- C11 ----------------------------------------------------------------
\* C11: when the recording of the reward or of the usage fails during
\* deliver or cancel, the call still leaves the form DONE with its result
\* (cancel: CANCELLED with a null result) in the database.
LedgerFailureKeepsTransition ==
    [][\A s \in DOMAIN sess, f \in DOMAIN forms :
          /\ \A r \in Results :
                (Deliver(s, f, r) /\ ret'[0].out.kind = "raise") =>
                    /\ forms'[f].state = "DONE"
                    /\ forms'[f].result = r
          /\ (Cancel(s, f) /\ ret'[0].out.kind = "raise") =>
                /\ forms'[f].state = "CANCELLED"
                /\ forms'[f].result = NoneResult]_vars

\* ---- C12 ----------------------------------------------------------------
\* C12: of the forms of one job that have the same name, at most one is
\* PROCESSING.
SingleProcessingPerType ==
    \A f, g \in DOMAIN forms :
        (/\ f # g
         /\ forms[f].i_id = forms[g].i_id
         /\ forms[f].name = forms[g].name
         /\ forms[f].state = "PROCESSING") => forms[g].state # "PROCESSING"

\* ---- C13 ----------------------------------------------------------------
\* C13: a form that is DONE or CANCELLED in the database keeps its state
\* and its result in every step.
TerminalStatesPermanent ==
    [][\A f \in DOMAIN forms :
          forms[f].state \in {"DONE", "CANCELLED"} =>
              /\ forms'[f].state = forms[f].state
              /\ forms'[f].result = forms[f].result]_vars

\* ---- C14 ----------------------------------------------------------------
\* C14: a DONE form has a result; a WAITING, PROCESSING or CANCELLED form
\* has none.
DoneImpliesResult ==
    \A f \in DOMAIN forms :
        /\ forms[f].state = "DONE" => forms[f].result # NoneResult
        /\ forms[f].state \in {"WAITING", "PROCESSING", "CANCELLED"} =>
              forms[f].result = NoneResult

\* ---- C15 ----------------------------------------------------------------
\* C15: no form is FAULTED in the database, and no session that is between
\* two calls sees a form FAULTED.
FaultedNeverRests ==
    \A f \in DOMAIN forms :
        /\ forms[f].state # "FAULTED"
        /\ \A s \in DOMAIN sess : Idle(s) => View(s, f).state # "FAULTED"

\* ---- C16 ----------------------------------------------------------------
\* C16: get_status of a job that exists never reports FAULTED.
AggregateNeverFaulted ==
    Last.op = "get_status" => Last.out.text # "FAULTED"

\* ---- C17 ----------------------------------------------------------------
\* The committed rows of job j, in the order of their ids.
JobRows(j) == SelectSeq(forms, LAMBDA row : row.i_id = j)

\* C17: is_completed returns True when the aggregate status of the job is
\* FAULTED or every form of the job has a result, and False otherwise.
CompletionPredicate ==
    Last.op = "is_completed" =>
        Last.out = RetBool(\/ StatusLaw(JobRows(Last.form)) = "FAULTED"
                           \/ \A i \in DOMAIN JobRows(Last.form) :
                                 JobRows(Last.form)[i].result # NoneResult)

\* ---- C18 ----------------------------------------------------------------
\* C18: of a deliver (or cancel) and an abort that run on the same claim,
\* only one takes effect: while an abort that has logged its fault is on
\* its way to its commit the form is not DONE or CANCELLED in the database,
\* and a form that an abort has returned to WAITING carries no delivered
\* result.
DeliverAbortExclusive ==
    \A f \in DOMAIN forms :
        /\ \A s \in DOMAIN sess :
              (sess[s].pc = "abort_commit" /\ sess[s].form = f) =>
                  forms[f].state \notin {"DONE", "CANCELLED"}
        /\ (forms[f].state = "WAITING" /\ TotalFaults > 0) =>
              forms[f].result \notin Results

\* ---- C19 ----------------------------------------------------------------
\* Worker a's claim on form f was aborted and another worker holds f now.
Superseded(a, f) ==
    /\ a \in Workers
    /\ aborted_jobs[a] > 0
    /\ claimant[f] \notin {0, a}
    /\ forms[f].state = "PROCESSING"

\* C19: a deliver or cancel that comes from a worker whose claim was aborted,
\* on a form that another worker has claimed since, leaves the form
\* PROCESSING as the caller's session sees it and credits no kudos.
OnlyHolderCompletes ==
    [][\A s \in DOMAIN sess, f \in DOMAIN forms :
          (/\ Superseded(s, f)
           /\ View(s, f).state = "PROCESSING"
           /\ \/ \E r \in Results : Deliver(s, f, r)
              \/ Cancel(s, f)) =>
              /\ Overlay(forms'[f], DirtyOf(sess'[s].dirty, f)).state = "PROCESSING"
              /\ worker_kudos' = worker_kudos]_vars

\* ---- C20 ----------------------------------------------------------------
\* The kudos credited to all the workers.
TotalKudos ==
    LET RECURSIVE sum(_)
        sum(w) == IF w = 0 THEN 0 ELSE worker_kudos[w] + sum(w - 1)
    IN  sum(NumWorkers)

\* C20: the kudos credited to the workers, the kudos charged to the
\* requester and the number of forms that are DONE or CANCELLED are equal.
KudosConservation ==
    /\ TotalKudos = user_usage
    /\ TotalKudos = Cardinality({f \in DOMAIN forms :
                                     forms[f].state \in {"DONE", "CANCELLED"}})

====
